---- MODULE Spec2Model ----
(***************************************************************************)
(* A model of petl/io/json.py: the JSON-array reader (fromjson/JsonView),  *)
(* the mapping-sequence reader (fromdicts/DictsView) and the two writers   *)
(* (tojson, tojsonarrays) with their shared helpers _writejson/_writeobj.  *)
(*                                                                         *)
(* Text is a sequence of characters.  The byte resource is described by   *)
(* the text its bytes decode to: io.TextIOWrapper is made with            *)
(* encoding='utf-8' and newline='', so no character is translated in       *)
(* either direction.  json.load and JSONEncoder are taken with the options *)
(* the module gives them by default (nothing forwarded through *args and   *)
(* **kwargs): strict parsing, ensure_ascii, no indent, the separators      *)
(* ", " and ": ", NaN and the infinities allowed.  PY2 tells the Python    *)
(* the module runs on: CPython 2.7, or Python 3.7 and later.               *)
(***************************************************************************)
EXTENDS Integers, Sequences, FiniteSets, TLC

(***************************************************************************)
(* Python values.  Every value is a record of the same shape so that any   *)
(* two values can be compared: t is the type, i the integer (or 0/1 of a   *)
(* bool), s the characters of a str, keys/items the keys and values of a   *)
(* dict in insertion order, items alone the members of a list.  A float is *)
(* the decimal i * 10^x with i not a multiple of 10 (x = 0 when i = 0);    *)
(* its s is <<"-">> for -0.0 and the literal for nan and the infinities.   *)
(* A key of a dict is the text of a str.                                   *)
(***************************************************************************)
None == [t |-> "null", i |-> 0, x |-> 0, s |-> <<>>, keys |-> <<>>, items |-> <<>>]

Bool(b) ==
    [t |-> "bool", i |-> IF b THEN 1 ELSE 0, x |-> 0, s |-> <<>>, keys |-> <<>>, items |-> <<>>]

Integer(n) == [t |-> "int", i |-> n, x |-> 0, s |-> <<>>, keys |-> <<>>, items |-> <<>>]

Str(cs) == [t |-> "str", i |-> 0, x |-> 0, s |-> cs, keys |-> <<>>, items |-> <<>>]

List(xs) == [t |-> "list", i |-> 0, x |-> 0, s |-> <<>>, keys |-> <<>>, items |-> xs]

Dict(ks, vs) == [t |-> "dict", i |-> 0, x |-> 0, s |-> <<>>, keys |-> ks, items |-> vs]

\* A Python object the JSON encoder has no encoding for (a set, an object()).
Obj == [t |-> "object", i |-> 0, x |-> 0, s |-> <<>>, keys |-> <<>>, items |-> <<>>]

Range(f) == {f[x] : x \in DOMAIN f}

(***************************************************************************)
(* Characters.  A character is a one-character string where TLA+ has one   *)
(* (printable ASCII but the grave accent, which a TLA+ string cannot hold,  *)
(* tab, newline, form feed, carriage return); any other code point n is    *)
(* the string "U+" followed by its hexadecimal digits.                     *)
(* Python compares strings code point by code point.                       *)
(***************************************************************************)
Printable ==
    <<" ", "!", "\"", "#", "$", "%", "&", "'", "(", ")", "*", "+", ",",
      "-", ".", "/", "0", "1", "2", "3", "4", "5", "6", "7", "8", "9", ":",
      ";", "<", "=", ">", "?", "@", "A", "B", "C", "D", "E", "F", "G", "H",
      "I", "J", "K", "L", "M", "N", "O", "P", "Q", "R", "S", "T", "U", "V",
      "W", "X", "Y", "Z", "[", "\\", "]", "^", "_", "a", "b", "c", "d",
      "e", "f", "g", "h", "i", "j", "k", "l", "m", "n", "o", "p", "q", "r",
      "s", "t", "u", "v", "w", "x", "y", "z", "{", "|", "}", "~">>

HexChar(d) ==
    <<"0", "1", "2", "3", "4", "5", "6", "7", "8", "9", "a", "b", "c", "d", "e", "f">>[d + 1]

RECURSIVE HexName(_)
HexName(n) == IF n < 16 THEN HexChar(n) ELSE HexName(n \div 16) \o HexChar(n % 16)

\* chr(n)
Chr(n) ==
    CASE n \in 32..95  -> Printable[n - 31]
      [] n \in 97..126 -> Printable[n - 32]
      [] n = 9  -> "\t"
      [] n = 10 -> "\n"
      [] n = 12 -> "\f"
      [] n = 13 -> "\r"
      [] OTHER  -> "U+" \o HexName(n)

\* ord(c)
Ord(c) ==
    CASE \E k \in 1..94 : Printable[k] = c ->
            LET k == CHOOSE k \in 1..94 : Printable[k] = c
            IN  IF k <= 64 THEN k + 31 ELSE k + 32
      [] c = "\t" -> 9
      [] c = "\n" -> 10
      [] c = "\f" -> 12
      [] c = "\r" -> 13
      [] OTHER -> CHOOSE n \in 0..1114111 : Chr(n) = c

RECURSIVE StrLess(_, _)
StrLess(a, b) ==
    IF b = <<>> THEN FALSE
    ELSE IF a = <<>> THEN TRUE
    ELSE IF Ord(Head(a)) # Ord(Head(b)) THEN Ord(Head(a)) < Ord(Head(b))
    ELSE StrLess(Tail(a), Tail(b))

\* sorted(hdr) of a set of str: ascending, one entry per member.
RECURSIVE sorted(_)
sorted(S) ==
    IF S = {} THEN <<>>
    ELSE LET m == CHOOSE x \in S : \A y \in S \ {x} : StrLess(x, y)
         IN  <<m>> \o sorted(S \ {m})

\* The decimal digits of n >= 0.
DigitChar(d) == <<"0", "1", "2", "3", "4", "5", "6", "7", "8", "9">>[d + 1]

RECURSIVE Digits(_)
Digits(n) == IF n < 10 THEN <<DigitChar(n)>> ELSE Digits(n \div 10) \o <<DigitChar(n % 10)>>

(***************************************************************************)
(* Floats.  float(text) of a decimal literal is the double nearest to the  *)
(* decimal, and float.__repr__ gives the shortest decimal that names the   *)
(* double; the model holds a float as that decimal, m * 10^e with m not a  *)
(* multiple of ten.  The digits of a literal are a number of the model,    *)
(* under 2^31: a literal of more digits is none of the texts modelled.     *)
(* Beyond the largest double the result is an infinity, below half the     *)
(* smallest double it is zero.  A decimal m * 10^e with e >= -323 is       *)
(* further from its neighbours than two doubles are from each other, so    *)
(* it is the shortest name of its double.  A decimal with e < -323 lies    *)
(* among the smallest doubles, the multiples of 2^-1074, and is rounded    *)
(* to one of them.                                                         *)
(***************************************************************************)
\* float('nan'), float('inf'), float('-inf'), named by their JSON literal.
\* i is the sign of an infinity.
FloatConst(lit, sgn) ==
    [t |-> "float", i |-> sgn, x |-> 0, s |-> lit, keys |-> <<>>, items |-> <<>>]

NaN == <<"N", "a", "N">>

Infinity == <<"I", "n", "f", "i", "n", "i", "t", "y">>

\* 2^1024 - 2^970 = 0.17976931348623158079...e309: a decimal from here on
\* rounds to an infinity.
DBL_OVERFLOW ==
    <<"1", "7", "9", "7", "6", "9", "3", "1", "3", "4", "8", "6", "2", "3", "1", "5",
      "8", "0", "7", "9">>

\* 2^-1075 = 0.24703282292062327208...e-323: a decimal up to here rounds to
\* zero.
DBL_UNDERFLOW ==
    <<"2", "4", "7", "0", "3", "2", "8", "2", "2", "9", "2", "0", "6", "2", "3", "2",
      "7", "2", "0", "8">>

\* Long numbers are held in places of four digits, the highest first.
Place == 10000

\* 2^-1074 = 4.94065645841246544176568792868221372...e-324, the smallest
\* double: its first 36 digits.
DBL_TRUE_MIN == <<4940, 6564, 5841, 2465, 4417, 6568, 7928, 6822, 1372>>

\* 10^-324 / 2^-1074 = 0.202402253307310618352495346718917307...: the 36
\* digits after the point.
PER_TRUE_MIN == <<2024, 225, 3307, 3106, 1835, 2495, 3467, 1891, 7307>>

\* The places of n >= 0.
RECURSIVE Places(_)
Places(n) == IF n < Place THEN <<n>> ELSE Places(n \div Place) \o <<n % Place>>

\* The product of the numbers with places a and b, in Len(a) + Len(b)
\* places: Column is the sum of the products of places that fall on the t-th
\* place from the right, Product the places from that one on.
RECURSIVE Column(_, _, _, _)
Column(a, b, t, i) ==
    IF i > Len(a) THEN 0
    ELSE (IF t + 1 - i \in 1..Len(b) THEN a[Len(a) + 1 - i] * b[Len(b) + i - t] ELSE 0)
         + Column(a, b, t, i + 1)

RECURSIVE Product(_, _, _, _)
Product(a, b, t, carry) ==
    IF t > Len(a) + Len(b) THEN <<>>
    ELSE Product(a, b, t + 1, (Column(a, b, t, 1) + carry) \div Place)
         \o <<(Column(a, b, t, 1) + carry) % Place>>

\* The decimal digits of the places p, four to a place.
RECURSIVE Dec(_)
Dec(p) ==
    IF p = <<>> THEN <<>>
    ELSE <<p[1] \div 1000, (p[1] \div 100) % 10, (p[1] \div 10) % 10, p[1] % 10>>
         \o Dec(Tail(p))

\* The number of the digits d.
RECURSIVE Num(_)
Num(d) == IF d = <<>> THEN 0 ELSE 10 * Num(SubSeq(d, 1, Len(d) - 1)) + d[Len(d)]

\* The number of the first n digits of d, rounded by the digit after them.
Rounded(d, n) ==
    IF n < 0 THEN 0
    ELSE Num(SubSeq(d, 1, n)) + (IF n < Len(d) /\ d[n + 1] >= 5 THEN 1 ELSE 0)

\* The k of the multiple k * 2^-1074 nearest to the decimal m * 10^e: of
\* the digits of m * PER_TRUE_MIN, those before the point.
Nearest(m, e) ==
    Rounded(Dec(Product(Places(m), PER_TRUE_MIN, 1, 0)), 4 * Len(Places(m)) + e + 324)

\* d without the zeros it starts with.
RECURSIVE Significant(_)
Significant(d) == IF d # <<>> /\ d[1] = 0 THEN Significant(Tail(d)) ELSE d

\* The shortest decimal of at least n digits whose nearest double is
\* k * 2^-1074, the digits of which are q (35 of them beyond 10^-324).
RECURSIVE Shortest(_, _, _)
Shortest(k, q, n) ==
    IF Nearest(Rounded(q, n), Len(q) - n - 359) = k
    THEN [m |-> Rounded(q, n), e |-> Len(q) - n - 359]
    ELSE Shortest(k, q, n + 1)

FloatZero(neg) ==
    [t |-> "float", i |-> 0, x |-> 0, s |-> IF neg THEN <<"-">> ELSE <<>>,
     keys |-> <<>>, items |-> <<>>]

\* The float held as the decimal m * 10^e, m > 0.
RECURSIVE Decimal(_, _, _)
Decimal(neg, m, e) ==
    IF m % 10 = 0 THEN Decimal(neg, m \div 10, e + 1)
    ELSE [t |-> "float", i |-> IF neg THEN 0 - m ELSE m, x |-> e, s |-> <<>>,
          keys |-> <<>>, items |-> <<>>]

\* The double k * 2^-1074, through its shortest decimal r.
Subnormal(neg, r) == Decimal(neg, r.m, r.e)

\* The float of the decimal 0.d * 10^mag, d the digits of m (the last one not
\* a zero).
FloatOf(neg, m, e, d, mag) ==
    IF mag > 309 \/ (mag = 309 /\ ~StrLess(d, DBL_OVERFLOW))
    THEN FloatConst(Infinity, IF neg THEN -1 ELSE 1)
    ELSE IF mag < -323 \/ (mag = -323 /\ ~StrLess(DBL_UNDERFLOW, d))
    THEN FloatZero(neg)
    ELSE IF e < -323
    THEN Subnormal(neg, Shortest(Nearest(m, e),
                                 Significant(Dec(Product(Places(Nearest(m, e)), DBL_TRUE_MIN, 1, 0))),
                                 1))
    ELSE Decimal(neg, m, e)

\* float(text) of a decimal literal: sign, digits m and decimal exponent e.
RECURSIVE Float(_, _, _)
Float(neg, m, e) ==
    IF m = 0 THEN FloatZero(neg)
    ELSE IF m % 10 = 0 THEN Float(neg, m \div 10, e + 1)
    ELSE FloatOf(neg, m, e, Digits(m), Len(Digits(m)) + e)

(***************************************************************************)
(* The order of a dict.  Python 3 (3.7 and later) goes through a dict in   *)
(* insertion order.  Python 2 goes through the slots of its hash table;    *)
(* the model follows CPython 2.7 on a 64-bit build with hash randomization *)
(* off (the default): unicode_hash of Objects/unicodeobject.c (string_hash *)
(* of a str of ASCII gives the same), lookdict, insertdict and dictresize  *)
(* of Objects/dictobject.c.  A hash is 64 bits, held as 13 digits of base  *)
(* 32 from the lowest on (the last holds 4 bits), so that a shift by       *)
(* PERTURB_SHIFT drops one digit.  A dict is taken as built by setting its *)
(* keys in order, none deleted, in a table of up to 2^20 slots.            *)
(***************************************************************************)
HashDigits == 13

PyDict_MINSIZE == 8

RECURSIVE ToBase32(_, _)
ToBase32(n, k) == IF k = 0 THEN <<>> ELSE <<n % 32>> \o ToBase32(n \div 32, k - 1)

\* a ^ b
RECURSIVE Xor(_, _)
Xor(a, b) ==
    IF a = 0 THEN b
    ELSE IF b = 0 THEN a
    ELSE ((a + b) % 2) + 2 * Xor(a \div 2, b \div 2)

\* x ^ y for hashes x and y: the digits from the k-th on.
RECURSIVE XorDigits(_, _, _)
XorDigits(x, y, k) ==
    IF k > HashDigits THEN <<>> ELSE <<Xor(x[k], y[k])>> \o XorDigits(x, y, k + 1)

\* x ^ n for a hash x and 0 <= n < 2^31
XorHash(x, n) == XorDigits(x, ToBase32(n, HashDigits), 1)

\* 1000003 * x modulo 2^64: the digits from the k-th on, c carried in.
RECURSIVE MulHash(_, _, _)
MulHash(x, k, c) ==
    IF k > HashDigits THEN <<>>
    ELSE <<(1000003 * x[k] + c) % (IF k = HashDigits THEN 16 ELSE 32)>>
         \o MulHash(x, k + 1, (1000003 * x[k] + c) \div 32)

\* while (--len >= 0) x = (1000003*x) ^ *p++;
RECURSIVE HashLoop(_, _, _)
HashLoop(x, cs, i) ==
    IF i > Len(cs) THEN x
    ELSE HashLoop(XorHash(MulHash(x, 1, 0), Ord(cs[i])), cs, i + 1)

\* if (x == -1) x = -2;
HashFix(x) ==
    IF \A k \in 1..HashDigits : x[k] = (IF k = HashDigits THEN 15 ELSE 31)
    THEN [x EXCEPT ![1] = 30]
    ELSE x

\* hash(cs) of the text cs
unicode_hash(cs) ==
    IF cs = <<>> THEN ToBase32(0, HashDigits)
    ELSE HashFix(XorHash(HashLoop(ToBase32(128 * Ord(cs[1]), HashDigits), cs, 1), Len(cs)))

\* (h >> (PERTURB_SHIFT * j)) & mask, for a table of size = mask + 1 slots
Perturb(h, j, size) ==
    LET digit(k) == IF k <= HashDigits THEN h[k] ELSE 0
    IN  (digit(j + 1) + 32 * digit(j + 2) + 1024 * digit(j + 3) + 32768 * digit(j + 4)) % size

\* lookdict for a key the table does not hold: the first free slot of the
\* probe sequence, which is at slot i after j shifts of perturb.  Slot i of
\* the table is tbl[i + 1], 0 where it is free, else the place of its key
\* among the keys.
RECURSIVE Probe(_, _, _, _)
Probe(tbl, h, i, j) ==
    IF tbl[i + 1] = 0 THEN i
    ELSE Probe(tbl, h, (5 * i + Perturb(h, j, Len(tbl)) + 1) % Len(tbl), j + 1)

lookdict(tbl, h) == Probe(tbl, h, Perturb(h, 0, Len(tbl)), 0)

\* The entries of a table in the order of its slots.
Entries(tbl) ==
    LET taken == {i \in 1..Len(tbl) : tbl[i] # 0}
    IN  [k \in 1..Cardinality(taken) |->
            tbl[CHOOSE i \in taken : Cardinality({j \in taken : j < i}) = k - 1]]

\* insertdict_clean of the entries es from the n-th on; hs holds the hashes.
RECURSIVE insertdict_clean(_, _, _, _)
insertdict_clean(tbl, hs, es, n) ==
    IF n > Len(es) THEN tbl
    ELSE insertdict_clean([tbl EXCEPT ![lookdict(tbl, hs[es[n]]) + 1] = es[n]], hs, es, n + 1)

RECURSIVE NewSize(_, _)
NewSize(minused, n) == IF n > minused THEN n ELSE NewSize(minused, 2 * n)

\* dictresize: a table of the first size above minused, the entries put in
\* again in the order of the old slots.
dictresize(tbl, hs, minused) ==
    insertdict_clean([k \in 1..NewSize(minused, PyDict_MINSIZE) |-> 0], hs, Entries(tbl), 1)

\* The end of PyDict_SetItem with used keys in the table: it grows once two
\* thirds of the slots are taken.
Grow(tbl, hs, used) ==
    IF 3 * used >= 2 * Len(tbl)
    THEN dictresize(tbl, hs, (IF used > 50000 THEN 2 ELSE 4) * used)
    ELSE tbl

\* PyDict_SetItem of the k-th key and of those after it.
RECURSIVE SetItems(_, _, _)
SetItems(tbl, hs, k) ==
    IF k > Len(hs) THEN tbl
    ELSE SetItems(Grow([tbl EXCEPT ![lookdict(tbl, hs[k]) + 1] = k], hs, k), hs, k + 1)

\* The places (among keys, which are in insertion order) a loop over the
\* dict visits, in order.
dict_order(keys, py2) ==
    IF py2
    THEN Entries(SetItems([k \in 1..PyDict_MINSIZE |-> 0],
                          [k \in 1..Len(keys) |-> unicode_hash(keys[k])], 1))
    ELSE [k \in 1..Len(keys) |-> k]

\* The (key, value) pairs at the places ord.
Pairs(o, ord) == [k \in 1..Len(ord) |-> <<o.keys[ord[k]], o.items[ord[k]]>>]

\* o.items() / o.iteritems()
iteritems(o, py2) == Pairs(o, dict_order(o.keys, py2))

(***************************************************************************)
(* json.JSONEncoder().iterencode(obj): the chunks the default encoder      *)
(* yields, in order.  ok is FALSE when the encoder raises TypeError at a   *)
(* value it cannot encode; c then holds the chunks yielded before that.    *)
(* py2 tells the Python the encoder runs on.                               *)
(***************************************************************************)
intstr(n) == IF n < 0 THEN <<"-">> \o Digits(0 - n) ELSE Digits(n)

\* '\\u{0:04x}'.format(n)
uXXXX(n) ==
    <<"\\", "u", HexChar(n \div 4096), HexChar((n \div 256) % 16),
      HexChar((n \div 16) % 16), HexChar(n % 16)>>

\* The characters from space to tilde.
Plain == {Chr(n) : n \in 32..126}

\* One character of a string under ensure_ascii: the short escapes, the
\* character itself from space to tilde, \uXXXX for the rest (a surrogate
\* pair above the basic plane).
EscapeChar(c) ==
    CASE c = "\"" -> <<"\\", "\"">>
      [] c = "\\" -> <<"\\", "\\">>
      [] c = "\n" -> <<"\\", "n">>
      [] c = "\r" -> <<"\\", "r">>
      [] c = "\t" -> <<"\\", "t">>
      [] c = "\f" -> <<"\\", "f">>
      [] c = Chr(8) -> <<"\\", "b">>
      [] c \in Plain -> <<c>>
      [] OTHER ->
            LET n == Ord(c)
            IN  IF n < 65536 THEN uXXXX(n)
                ELSE uXXXX(55296 + ((n - 65536) \div 1024))
                     \o uXXXX(56320 + ((n - 65536) % 1024))

RECURSIVE Escape(_)
Escape(cs) == IF cs = <<>> THEN <<>> ELSE EscapeChar(Head(cs)) \o Escape(Tail(cs))

encode_str(cs) == <<"\"">> \o Escape(cs) \o <<"\"">>

Zeros(n) == [k \in 1..n |-> "0"]

\* float.__repr__ of a finite float: positional notation while the decimal
\* point falls within the range -4 < decpt <= 16, else d[.ddd]e+XX.
float_repr(v) ==
    LET m     == IF v.i < 0 THEN 0 - v.i ELSE v.i
        sign  == IF v.i < 0 \/ v.s = <<"-">> THEN <<"-">> ELSE <<>>
        d     == Digits(m)
        decpt == Len(d) + v.x
        e     == decpt - 1
    IN  sign \o
        (IF -4 < decpt /\ decpt <= 16
         THEN IF v.x >= 0 THEN d \o Zeros(v.x) \o <<".", "0">>
              ELSE IF decpt > 0
                   THEN SubSeq(d, 1, decpt) \o <<".">> \o SubSeq(d, decpt + 1, Len(d))
              ELSE <<"0", ".">> \o Zeros(0 - decpt) \o d
         ELSE <<Head(d)>> \o (IF Len(d) > 1 THEN <<".">> \o Tail(d) ELSE <<>>)
              \o <<"e", IF e < 0 THEN "-" ELSE "+">>
              \o (LET a == IF e < 0 THEN 0 - e ELSE e
                  IN  IF a < 10 THEN <<"0">> \o Digits(a) ELSE Digits(a)))

\* floatstr of the encoder (allow_nan is left at its default).
floatstr(v) ==
    IF v.s = NaN THEN NaN
    ELSE IF v.s = Infinity THEN IF v.i < 0 THEN <<"-">> \o Infinity ELSE Infinity
    ELSE float_repr(v)

IsScalar(v) == v.t \in {"null", "bool", "int", "float", "str"}

ScalarText(v) ==
    CASE v.t = "null"  -> <<"n", "u", "l", "l">>
      [] v.t = "bool"  -> IF v.i = 1 THEN <<"t", "r", "u", "e">> ELSE <<"f", "a", "l", "s", "e">>
      [] v.t = "int"   -> intstr(v.i)
      [] v.t = "float" -> floatstr(v)
      [] v.t = "str"   -> encode_str(v.s)

item_separator == <<",", " ">>

key_separator == <<":", " ">>

\* The chunks a followed by the chunks b, the latter yielded only when the
\* former ended without error.
Chunks(a, b) == IF a.ok THEN [c |-> a.c \o b.c, ok |-> b.ok] ELSE a

RECURSIVE iterencode(_, _), iterencode_list(_, _, _), iterencode_dict(_, _, _)
iterencode(o, py2) ==
    CASE IsScalar(o) -> [c |-> <<ScalarText(o)>>, ok |-> TRUE]
      [] o.t = "list" ->
            IF o.items = <<>> THEN [c |-> << <<"[", "]">> >>, ok |-> TRUE]
            ELSE iterencode_list(o.items, 1, py2)
      [] o.t = "dict" ->
            IF o.keys = <<>> THEN [c |-> << <<"{", "}">> >>, ok |-> TRUE]
            ELSE Chunks([c |-> << <<"{">> >>, ok |-> TRUE],
                        iterencode_dict(iteritems(o, py2), 1, py2))
      [] OTHER -> [c |-> <<>>, ok |-> FALSE]

\* The members of a non-empty list from the i-th on, and the closing bracket.
\* A scalar member is one chunk with the bracket or separator before it.
iterencode_list(lst, i, py2) ==
    IF i > Len(lst) THEN [c |-> << <<"]">> >>, ok |-> TRUE]
    ELSE LET buf == IF i = 1 THEN <<"[">> ELSE item_separator
         IN  Chunks(IF IsScalar(lst[i])
                    THEN [c |-> <<buf \o ScalarText(lst[i])>>, ok |-> TRUE]
                    ELSE Chunks([c |-> <<buf>>, ok |-> TRUE], iterencode(lst[i], py2)),
                    iterencode_list(lst, i + 1, py2))

\* The items of a non-empty dict from the i-th on, in the order the dict
\* gives them, and the closing brace.
iterencode_dict(items, i, py2) ==
    IF i > Len(items) THEN [c |-> << <<"}">> >>, ok |-> TRUE]
    ELSE LET sep == IF i = 1 THEN <<>> ELSE <<item_separator>>
         IN  Chunks(Chunks([c |-> sep \o <<encode_str(items[i][1]), key_separator>>,
                            ok |-> TRUE],
                           iterencode(items[i][2], py2)),
                    iterencode_dict(items, i + 1, py2))

RECURSIVE Flatten(_)
Flatten(chunks) == IF chunks = <<>> THEN <<>> ELSE Head(chunks) \o Flatten(Tail(chunks))

(***************************************************************************)
(* json.load(f): the whole text is read and parsed as one JSON document.   *)
(* A scan returns [ok, v, p]: the value and the position after it; ok is   *)
(* FALSE where the decoder raises JSONDecodeError.                         *)
(***************************************************************************)
ParseFail == [ok |-> FALSE, v |-> None, p |-> 0]

\* The whitespace the decoder skips between tokens.
WHITESPACE == {" ", "\t", "\n", "\r"}

RECURSIVE SkipWs(_, _)
SkipWs(s, p) == IF p <= Len(s) /\ s[p] \in WHITESPACE THEN SkipWs(s, p + 1) ELSE p

IsDigit(c) == c \in {"0", "1", "2", "3", "4", "5", "6", "7", "8", "9"}

DigitVal(c) == CHOOSE d \in 0..9 : DigitChar(d) = c

IsHex(c) == IsDigit(c) \/ c \in {"a", "b", "c", "d", "e", "f", "A", "B", "C", "D", "E", "F"}

HexVal(c) ==
    IF IsDigit(c) THEN DigitVal(c)
    ELSE IF Ord(c) >= 97 THEN Ord(c) - 87 ELSE Ord(c) - 55

Matches(s, p, lit) ==
    /\ p + Len(lit) - 1 <= Len(s)
    /\ \A k \in 1..Len(lit) : s[p + k - 1] = lit[k]

\* The four hexadecimal digits of a \uXXXX escape whose backslash is at p:
\* -1 where they are missing or malformed.
DecodeUXXXX(s, p) ==
    IF p + 5 <= Len(s) /\ \A k \in 2..5 : IsHex(s[p + k])
    THEN 4096 * HexVal(s[p + 2]) + 256 * HexVal(s[p + 3])
         + 16 * HexVal(s[p + 4]) + HexVal(s[p + 5])
    ELSE -1

\* The characters a strict decoder rejects inside a string.
ControlChars == {Chr(n) : n \in 0..31}

\* The character after a backslash.
BACKSLASH(c) ==
    CASE c = "\"" -> "\""
      [] c = "\\" -> "\\"
      [] c = "/"  -> "/"
      [] c = "b"  -> Chr(8)
      [] c = "f"  -> "\f"
      [] c = "n"  -> "\n"
      [] c = "r"  -> "\r"
      [] c = "t"  -> "\t"

\* The characters of a string whose opening quote is before p.  The decoder
\* is strict: a raw control character inside a string is an error.
RECURSIVE ScanString(_, _, _)

\* A \uXXXX escape at p whose digits are u (-1 where malformed); u2 holds
\* those of a \uXXXX escape that follows it, -1 where there is none.  A high
\* surrogate followed by an escaped low surrogate is one character.
ScanUnicode(s, p, acc, u, u2) ==
    IF u = -1 THEN ParseFail
    ELSE IF u \in 55296..56319 /\ u2 \in 56320..57343
         THEN ScanString(s, p + 12, Append(acc, Chr(65536 + 1024 * (u - 55296) + (u2 - 56320))))
    ELSE ScanString(s, p + 6, Append(acc, Chr(u)))

ScanString(s, p, acc) ==
    IF p > Len(s) THEN ParseFail
    ELSE IF s[p] = "\"" THEN [ok |-> TRUE, v |-> Str(acc), p |-> p + 1]
    ELSE IF s[p] = "\\"
         THEN IF p + 1 > Len(s) THEN ParseFail
              ELSE IF s[p + 1] = "u"
                   THEN ScanUnicode(s, p, acc, DecodeUXXXX(s, p),
                                    IF Matches(s, p + 6, <<"\\", "u">>)
                                    THEN DecodeUXXXX(s, p + 6) ELSE -1)
              ELSE IF s[p + 1] \in {"\"", "\\", "/", "b", "f", "n", "r", "t"}
                   THEN ScanString(s, p + 2, Append(acc, BACKSLASH(s[p + 1])))
              ELSE ParseFail
    ELSE IF s[p] \in ControlChars THEN ParseFail
    ELSE ScanString(s, p + 1, Append(acc, s[p]))

\* The digits from p on: their value n and the position p after them.
RECURSIVE ScanDigits(_, _, _)
ScanDigits(s, p, acc) ==
    IF p <= Len(s) /\ IsDigit(s[p])
    THEN ScanDigits(s, p + 1, 10 * acc + DigitVal(s[p]))
    ELSE [n |-> acc, p |-> p]


\* The value of a number: neg its sign, int its integer part, frac the
\* digits up to the end of the fraction (int where there is none), exp the
\* digits of the exponent (hasE) and negE its sign.  An int when there is
\* neither fraction nor exponent, else a float.
NumberValue(neg, int, frac, hasE, negE, exp) ==
    IF frac.p # int.p \/ hasE
    THEN [ok |-> TRUE,
          v  |-> Float(neg, frac.n,
                       (IF negE THEN 0 - exp.n ELSE exp.n)
                         - (IF frac.p # int.p THEN frac.p - (int.p + 1) ELSE 0)),
          p  |-> exp.p]
    ELSE [ok |-> TRUE, v |-> Integer(IF neg THEN 0 - int.n ELSE int.n), p |-> int.p]

\* ([eE][-+]?\d+)? at the end of the fraction.  An exponent that lacks its
\* digits is not part of the number.
ScanExponent(s, neg, int, frac) ==
    LET sgnP == /\ frac.p + 1 <= Len(s)
                /\ s[frac.p] \in {"e", "E"}
                /\ s[frac.p + 1] \in {"-", "+"}
        d    == IF sgnP THEN frac.p + 2 ELSE frac.p + 1
        hasE == /\ d <= Len(s)
                /\ s[frac.p] \in {"e", "E"}
                /\ IsDigit(s[d])
    IN  NumberValue(neg, int, frac, hasE, sgnP /\ s[frac.p + 1] = "-",
                    IF hasE THEN ScanDigits(s, d, 0) ELSE [n |-> 0, p |-> frac.p])

\* (\.\d+)? after the integer part.  A fraction that lacks its digits is not
\* part of the number.
ScanFraction(s, neg, int) ==
    ScanExponent(s, neg, int,
                 IF int.p + 1 <= Len(s) /\ s[int.p] = "." /\ IsDigit(s[int.p + 1])
                 THEN ScanDigits(s, int.p + 1, int.n) ELSE int)

\* NUMBER_RE (-?(?:0|[1-9]\d*))(\.\d+)?([eE][-+]?\d+)? matched at p.
ScanNumber(s, p) ==
    LET neg  == s[p] = "-"
        q    == IF neg THEN p + 1 ELSE p
    IN  IF q > Len(s) \/ ~IsDigit(s[q]) THEN ParseFail
        ELSE ScanFraction(s, neg,
                          IF s[q] = "0" THEN [n |-> 0, p |-> q + 1] ELSE ScanDigits(s, q, 0))

\* d[k] = v on a dict: a repeated key keeps its place and takes the new value.
DictPut(d, k, v) ==
    IF \E j \in 1..Len(d.keys) : d.keys[j] = k
    THEN LET j == CHOOSE j \in 1..Len(d.keys) : d.keys[j] = k
         IN  Dict(d.keys, [d.items EXCEPT ![j] = v])
    ELSE Dict(Append(d.keys, k), Append(d.items, v))

RECURSIVE ScanValue(_, _), ScanArray(_, _, _), ScanObject(_, _, _)
ScanValue(s, p) ==
    IF p > Len(s) THEN ParseFail
    ELSE CASE s[p] = "\"" -> ScanString(s, p + 1, <<>>)
           [] s[p] = "[" ->
                 LET q == SkipWs(s, p + 1)
                 IN  IF q <= Len(s) /\ s[q] = "]"
                     THEN [ok |-> TRUE, v |-> List(<<>>), p |-> q + 1]
                     ELSE ScanArray(s, q, <<>>)
           [] s[p] = "{" ->
                 LET q == SkipWs(s, p + 1)
                 IN  IF q <= Len(s) /\ s[q] = "}"
                     THEN [ok |-> TRUE, v |-> Dict(<<>>, <<>>), p |-> q + 1]
                     ELSE ScanObject(s, q, Dict(<<>>, <<>>))
           [] s[p] = "n" /\ Matches(s, p, <<"n", "u", "l", "l">>) ->
                 [ok |-> TRUE, v |-> None, p |-> p + 4]
           [] s[p] = "t" /\ Matches(s, p, <<"t", "r", "u", "e">>) ->
                 [ok |-> TRUE, v |-> Bool(TRUE), p |-> p + 4]
           [] s[p] = "f" /\ Matches(s, p, <<"f", "a", "l", "s", "e">>) ->
                 [ok |-> TRUE, v |-> Bool(FALSE), p |-> p + 5]
           [] IsDigit(s[p]) -> ScanNumber(s, p)
           [] s[p] = "-" ->
                 IF p + 1 <= Len(s) /\ IsDigit(s[p + 1]) THEN ScanNumber(s, p)
                 ELSE IF Matches(s, p + 1, Infinity)
                      THEN [ok |-> TRUE, v |-> FloatConst(Infinity, -1), p |-> p + 9]
                 ELSE ParseFail
           [] s[p] = "N" /\ Matches(s, p, NaN) ->
                 [ok |-> TRUE, v |-> FloatConst(NaN, 0), p |-> p + 3]
           [] s[p] = "I" /\ Matches(s, p, Infinity) ->
                 [ok |-> TRUE, v |-> FloatConst(Infinity, 1), p |-> p + 8]
           [] OTHER -> ParseFail

\* After the member e of an array: the closing bracket, or a comma and the
\* members that follow.
ArrayNext(s, acc, e) ==
    IF ~e.ok THEN ParseFail
    ELSE LET q == SkipWs(s, e.p)
         IN  IF q > Len(s) THEN ParseFail
             ELSE IF s[q] = "]"
                  THEN [ok |-> TRUE, v |-> List(Append(acc, e.v)), p |-> q + 1]
             ELSE IF s[q] = ","
                  THEN ScanArray(s, SkipWs(s, q + 1), Append(acc, e.v))
             ELSE ParseFail

\* The members of an array from position p on; acc holds those before it.
ScanArray(s, p, acc) == ArrayNext(s, acc, ScanValue(s, p))

\* After the value e of the key k of an object: the closing brace, or a
\* comma and the items that follow.
ObjectNext(s, acc, k, e) ==
    IF ~e.ok THEN ParseFail
    ELSE LET r == SkipWs(s, e.p)
             d == DictPut(acc, k.v.s, e.v)
         IN  IF r > Len(s) THEN ParseFail
             ELSE IF s[r] = "}"
                  THEN [ok |-> TRUE, v |-> d, p |-> r + 1]
             ELSE IF s[r] = ","
                  THEN ScanObject(s, SkipWs(s, r + 1), d)
             ELSE ParseFail

\* After the key k of an object: the colon and the value.
ObjectValue(s, acc, k) ==
    IF ~k.ok THEN ParseFail
    ELSE LET q == SkipWs(s, k.p)
         IN  IF q > Len(s) \/ s[q] # ":" THEN ParseFail
             ELSE ObjectNext(s, acc, k, ScanValue(s, SkipWs(s, q + 1)))

\* The items of an object from position p on; acc is the dict built so far.
ScanObject(s, p, acc) ==
    IF p > Len(s) \/ s[p] # "\"" THEN ParseFail
    ELSE ObjectValue(s, acc, ScanString(s, p + 1, <<>>))

\* The document r scanned from text: nothing but whitespace may follow it.
Document(text, r) ==
    IF r.ok /\ SkipWs(text, r.p) = Len(text) + 1
    THEN [ok |-> TRUE, v |-> r.v]
    ELSE [ok |-> FALSE, v |-> None]

json_load(text) == Document(text, ScanValue(text, SkipWs(text, 1)))

(***************************************************************************)
(* Header derivation and row projection (JsonView.__iter__ and             *)
(* DictsView.__iter__ hold the same lines).                                *)
(***************************************************************************)
\* hasattr(o, 'keys')
hasattr_keys(o) == o.t = "dict"

\* Whether `for o in v` can start: iter(v) raises TypeError on the others.
Iterable(v) == v.t \in {"list", "dict", "str"}

\* The keys of the pairs, each a str.
KeysOf(items) == [k \in 1..Len(items) |-> Str(items[k][1])]

\* The values `for o in v` binds, in order: the members of a list, the keys
\* of a dict in the order of the dict, the characters of a str.
Iter(v, py2) ==
    CASE v.t = "list" -> v.items
      [] v.t = "dict" -> KeysOf(iteritems(v, py2))
      [] v.t = "str"  -> [k \in 1..Len(v.s) |-> Str(<<v.s[k]>>)]
      [] OTHER -> <<>>

\* hdr = set(); for o in result: if hasattr(o, 'keys'): hdr |= set(o.keys())
KeyUnion(elems) ==
    UNION {Range(elems[k].keys) : k \in {j \in 1..Len(elems) : hasattr_keys(elems[j])}}

\* A derivation that looks at the first record only.
DetermineFields_first(elems) ==
    sorted(IF elems # <<>> /\ hasattr_keys(elems[1]) THEN Range(elems[1].keys) ELSE {})

\* hdr = sorted(hdr)
DetermineFields(elems) == sorted(KeyUnion(elems))

\* tuple(hdr): the header row, a tuple of str.
HeaderRow(h) == [k \in 1..Len(h) |-> Str(h[k])]

IsSubstring(f, s) ==
    \E k \in 0..(Len(s) - Len(f)) : \A j \in 1..Len(f) : s[k + j] = f[j]

\* A membership test that answers "no" for whatever is no dict.
Contains_guarded(o, f) ==
    IF o.t = "dict" /\ f \in Range(o.keys) THEN "yes" ELSE "no"

\* `f in o` for a str f: "yes", "no", or "TypeError" where Python raises it.
Contains(o, f) ==
    CASE o.t = "dict" -> IF f \in Range(o.keys) THEN "yes" ELSE "no"
      [] o.t = "str"  -> IF IsSubstring(f, o.s) THEN "yes" ELSE "no"
      [] o.t = "list" -> IF Str(f) \in Range(o.items) THEN "yes" ELSE "no"
      [] OTHER -> "TypeError"

\* o[f] on a dict that holds f.
GetItem(o, f) == o.items[CHOOSE j \in 1..Len(o.keys) : o.keys[j] = f]

RowError == [ok |-> FALSE, row |-> <<>>]

\* tuple(o[f] if f in o else None for f in hdr); ok is FALSE where the
\* expression raises TypeError (`f in o` on a value with no membership test,
\* o[f] with a str index on a str or a list).
RECURSIVE ProjectRow(_, _)
ProjectRow(o, h) ==
    IF h = <<>> THEN [ok |-> TRUE, row |-> <<>>]
    ELSE LET c == Contains(o, Head(h))
         IN  IF c = "TypeError" \/ (c = "yes" /\ o.t # "dict") THEN RowError
             ELSE LET v    == IF c = "yes" THEN GetItem(o, Head(h)) ELSE None
                      rest == ProjectRow(o, Tail(h))
                  IN  IF rest.ok THEN [ok |-> TRUE, row |-> <<v>> \o rest.row]
                      ELSE RowError

(***************************************************************************)
(* What the writers take from the table (petl.util.base).                  *)
(***************************************************************************)
RECURSIVE asdict(_, _, _)
asdict(flds, row, acc) ==
    IF flds = <<>> THEN acc
    ELSE asdict(Tail(flds), Tail(row), DictPut(acc, Head(flds), Head(row)))

\* list(_dicts(table)): one dict per data row, keyed by the header.
dicts_of(t) == [k \in 1..Len(t.rows) |-> asdict(t.hdr, t.rows[k], Dict(<<>>, <<>>))]

\* list(data(table)): the data rows.
data_of(t) == [k \in 1..Len(t.rows) |-> List(t.rows[k])]

\* list(table): the header row, then the data rows.
list_of(t) == <<List(HeaderRow(t.hdr))>> \o data_of(t)

(***************************************************************************)
(* Bounds and the inputs drawn in Init.                                    *)
(***************************************************************************)
\* Longest record sequence given to a reader.
MaxRecs == 2

\* Most data rows of a table given to a writer.
MaxRows == 2

\* Most iterations of one view.
MaxIters == 2

fa == <<"a">>

fb == <<"b">>

fB == <<"B">>

fab == <<"a", "b">>

NoArg == [given |-> FALSE, v |-> <<>>]

Given(v) == [given |-> TRUE, v |-> v]

SeqsUpTo(S, n) == UNION {[1..k -> S] : k \in 0..n}

\* Array members: two records with different key sets (one key present with
\* a null value, one str value that needs escaping).
Elements ==
    { Dict(<<fb, fa>>, <<Integer(2), Integer(1)>>),
      Dict(<<fab, fB>>, <<Str(<<"q", "\"">>), None>>) }

\* Further record sequences: the empty record, alone and before a record with
\* keys; members that are no mapping (a number, a str that contains a field
\* name, a list that holds a field name and one that holds none), alone,
\* after a record and before one.
OtherRecords ==
    LET r == Dict(<<fb, fa>>, <<Integer(2), Integer(1)>>)
    IN  { <<Dict(<<>>, <<>>)>>, <<Dict(<<>>, <<>>), r>>,
          <<Integer(5)>>, <<r, Integer(5)>>, <<Integer(5), r>>,
          <<Str(fab)>>, <<r, Str(fab)>>,
          <<List(<<Str(fa)>>)>>, <<List(<<>>)>>,
          <<r, List(<<Str(fa)>>)>>, <<r, List(<<>>)>> }

RecordSeqs == SeqsUpTo(Elements, MaxRecs) \cup OtherRecords

Docs == {List(es) : es \in RecordSeqs}

\* Documents whose top level is no array.
OtherDocs == {Integer(5), Str(fab), Dict(<<fb, fa>>, <<Integer(2), Integer(1)>>)}

\* The text of a document, its keys written in the order they are held in.
TextOf(v) == Flatten(iterencode(v, FALSE).c)

\* File contents that are a JSON document: the encodings of the documents,
\* one text with other spacing, and one laid out over several lines (with a
\* float written with an exponent, a str written with escapes, and a float
\* as a member of the array).
WellFormed ==
    {TextOf(d) : d \in Docs \cup OtherDocs}
    \cup { <<"[", "{", "\"", "a", "\"", ":", "1", "}", " ", ",", "-", "7", "]", " ">>,
           <<"[", "{", "\"", "a", "\"", ":", " ", "1", ".", "5", "e", "1", ",", "\n",
             "\t", "\"", "b", "\"", ":", " ", "\"", "\\", "n", "\\", "u", "0", "0", "4",
             "1", "\"", "}", ",", "\r", "\n", "2", ".", "5", "]", "\n">> }

\* File contents that are no JSON document: an array that is cut off, a
\* comma before the closing bracket, the empty file.
Malformed ==
    { <<"[", "{", "\"", "a", "\"", ":", " ", "1", "}", ",">>,
      <<"[", "1", ",", "]">>,
      <<>> }

Texts == WellFormed \cup Malformed

HeaderArgs == {NoArg, Given(<<fb, fB>>), Given(<<fa, fa>>), Given(<<>>)}

MissingArgs == {NoArg, Given(Str(<<"-">>))}

TextArgs == {NoArg, Given(<<"/", "*", "x", "*", "/">>)}

\* Cell values: a negative int of two digits, a str with a quote and a
\* newline, None, a list holding a bool and a dict with a float, and an
\* object the encoder rejects.
SampleValues ==
    << Integer(0 - 12), Str(<<"q", "\"", "\n">>), None,
       List(<<Bool(FALSE), Dict(<<fab>>, <<Float(TRUE, 25, -1)>>)>>), Obj >>

\* The rows of width n: the sample values taken cyclically from every second
\* offset.
RowsOf(n) ==
    {[k \in 1..n |-> SampleValues[((k + off - 1) % Len(SampleValues)) + 1]] :
        off \in {0, 2, 4}}

TableHeaders == {<<>>, <<fb, fa>>, <<fa, fa>>}

Tables == UNION {{[hdr |-> h, rows |-> rs] : rs \in SeqsUpTo(RowsOf(Len(h)), MaxRows)} :
                    h \in TableHeaders}

NoTable == [hdr |-> <<>>, rows |-> <<>>]

NoChunks == [c |-> <<>>, ok |-> TRUE]

(***************************************************************************)
(* State.                                                                  *)
(***************************************************************************)
VARIABLES
    PY2,            \* petl.compat.PY2
    op,             \* the entry point called
    disk,           \* the content of the byte resource behind source
    rewritten,      \* the content was replaced after the view was constructed
    header,         \* header=... of fromjson / fromdicts
    missing,        \* missing=... of fromjson
    dicts,          \* the records given to fromdicts
    lazy,           \* dicts is a generator (one traversal) rather than a list
    gpos,           \* how many records the generator has handed out
    view,           \* the table object constructed: "none", "json", "dicts"
    self_missing,   \* JsonView.missing
    self_header,    \* JsonView.header / DictsView.header
    pc,             \* where the call stands
    its,            \* the generators made by iter(view), in order of creation
    overlap,        \* an iteration was started while another was unfinished
    err,            \* the exception in flight in a writer, "none" if none
    events,         \* every open / wrap / detach / close on the resource, in order
    log,            \* what a finished call of a writer gave its caller
    table,          \* the table given to a writer
    prefix,
    suffix,
    output_header,
    obj,            \* obj in tojson / tojsonarrays
    chunks,         \* encoder.iterencode(obj)
    cpos,           \* the next chunk
    written         \* the arguments of f.write, in order

args == <<PY2, op, header, missing, dicts, lazy, table, prefix, suffix, output_header>>

viewvars == <<view, self_missing, self_header>>

itervars == <<its, overlap>>

writevars == <<obj, chunks, cpos, written>>

vars == <<args, viewvars, itervars, writevars, disk, rewritten, gpos, pc, err, events, log>>

Init ==
    /\ PY2 \in BOOLEAN
    /\ \/ /\ op = "fromjson"
          /\ disk \in Texts
          /\ header \in HeaderArgs
          /\ missing \in MissingArgs
          /\ dicts = <<>> /\ lazy = FALSE
          /\ table = NoTable /\ prefix = NoArg /\ suffix = NoArg
          /\ output_header = FALSE
       \/ /\ op = "fromdicts"
          /\ dicts \in RecordSeqs
          /\ lazy \in BOOLEAN
          /\ header \in HeaderArgs
          /\ missing = NoArg /\ disk = <<>>
          /\ table = NoTable /\ prefix = NoArg /\ suffix = NoArg
          /\ output_header = FALSE
       \/ /\ op \in {"tojson", "tojsonarrays"}
          /\ table \in Tables
          /\ prefix \in TextArgs
          /\ suffix \in TextArgs
          /\ output_header \in (IF op = "tojsonarrays" THEN BOOLEAN ELSE {FALSE})
          /\ disk = <<"[", "1", "]">>
          /\ header = NoArg /\ missing = NoArg
          /\ dicts = <<>> /\ lazy = FALSE
    /\ gpos = 0 /\ rewritten = FALSE
    /\ view = "none" /\ self_missing = None /\ self_header = NoArg
    /\ pc = "call"
    /\ its = <<>> /\ overlap = FALSE
    /\ err = "none"
    /\ events = <<>>
    /\ log = <<>>
    /\ obj = None /\ chunks = NoChunks /\ cpos = 0 /\ written = <<>>

(***************************************************************************)
(* fromjson and JsonView.                                                  *)
(*                                                                         *)
(* JsonView.__iter__ is a generator function: every iter(view) makes a     *)
(* generator of its own, with its own f, result and hdr.  A generator runs *)
(* from one yield to the next inside one call of next() (or to its end     *)
(* inside one call of next() or close()); between two calls it is          *)
(* suspended, and the caller may start, advance or close another one.  One *)
(* call is one action; the pieces of __iter__ it runs through are the      *)
(* operators below, each from a generator's frame to that frame afterwards.*)
(***************************************************************************)
\* What the caller of a finished call has seen, and whether the resource had
\* been opened.
Outcome(rows, e, o) == [out |-> rows, err |-> e, opened |-> o]

\* A generator: where it stands, the text json.load has read from f (text),
\* its locals, the rows it has yielded (out), the place in result of the
\* member behind each data row (src), the exception that ended it (err), and
\* the events on the byte resource it has opened and on the wrapper around
\* it, in order (events).
Frame(p, e, ev) ==
    [pc |-> p, text |-> <<>>, result |-> None, hdr |-> <<>>, idx |-> 0, out |-> <<>>,
     src |-> <<>>, err |-> e, events |-> ev]

\* The events the generator has made on the way from frame g to frame h.
Since(g, h) == SubSeq(h.events, Len(g.events) + 1, Len(h.events))

\* What the decoder raises: ValueError, of which Python 3 has the subclass
\* json.JSONDecodeError.
DecodeError == IF PY2 THEN "ValueError" ELSE "JSONDecodeError"

\* The generators that have not finished.
Live == {i \in 1..Len(its) : its[i].pc # "done"}

\* A detach that is not in a finally clause: skipped when an exception is
\* in flight.
JsonDetach_noFinally(g) ==
    [g EXCEPT !.events = IF PY2 \/ g.err # "none" THEN @ ELSE Append(@, "detach")]

\* Lines 86-88: finally: if not PY2: f.detach()
JsonDetach(g) ==
    [g EXCEPT !.events = IF PY2 THEN @ ELSE Append(@, "detach")]

\* A generator that ends without closing the byte resource.
JsonClose_leak(g) ==
    [g EXCEPT !.pc = "done"]

\* The end of the with block of line 65: the byte resource is closed, and the
\* caller sees the end of the iteration or the exception.
JsonClose(g) ==
    [g EXCEPT !.pc = "done", !.events = Append(@, "close")]

\* The way out of the try block, with exception e in flight or with none:
\* the finally clause, then the end of the with block.
JsonLeave(g, e) == JsonClose(JsonDetach([g EXCEPT !.err = e]))

\* A header step that sorts the explicit header as well.
JsonHeader_sorted(g) ==
    LET h == IF self_header.given THEN sorted(Range(self_header.v))
             ELSE DetermineFields(Iter(g.result, PY2))
    IN  IF ~self_header.given /\ ~Iterable(g.result)
        THEN JsonLeave(g, "TypeError")
        ELSE [g EXCEPT !.hdr = h, !.out = <<HeaderRow(h)>>, !.idx = 1, !.pc = "rows"]

\* Lines 72-81: the header, derived or as given, and its row; the generator
\* is suspended at the yield.
JsonHeader(g) ==
    LET h == IF self_header.given THEN self_header.v
             ELSE DetermineFields(Iter(g.result, PY2))
    IN  IF ~self_header.given /\ ~Iterable(g.result)
        THEN JsonLeave(g, "TypeError")
        ELSE [g EXCEPT !.hdr = h, !.out = <<HeaderRow(h)>>, !.idx = 1, !.pc = "rows"]

\* Lines 70-71: result = json.load(f, ...): the value, and on to the header,
\* or the decoder's error.
JsonLoad(g) ==
    LET r == json_load(disk)
    IN  IF r.ok THEN JsonHeader([g EXCEPT !.text = disk, !.result = r.v])
        ELSE JsonLeave([g EXCEPT !.text = disk], DecodeError)

\* Lines 83-85, from the yield a generator is suspended at: the next data
\* row, at which it is suspended again, or the end of the loop, or the
\* TypeError of the loop or of the row expression.
JsonRow(g) ==
    LET r == ProjectRow(Iter(g.result, PY2)[g.idx], g.hdr)
    IN  IF ~Iterable(g.result) THEN JsonLeave(g, "TypeError")
        ELSE IF g.idx > Len(Iter(g.result, PY2)) THEN JsonLeave(g, "none")
        ELSE IF r.ok
        THEN [g EXCEPT !.out = Append(@, r.row), !.src = Append(@, g.idx), !.idx = @ + 1]
        ELSE JsonLeave(g, "TypeError")

\* fromjson(source, missing=..., header=...): JsonView.__init__ keeps the
\* source and the options; nothing is opened.
FromJson ==
    /\ pc = "call" /\ op = "fromjson"
    /\ view' = "json"
    /\ self_missing' = (IF missing.given THEN missing.v ELSE None)
    /\ self_header' = header
    /\ pc' = "idle"
    /\ UNCHANGED <<args, itervars, writevars, disk, rewritten, gpos, err, events, log>>

\* iter(view); next(): self.source.open('rb') and, on Python 3, the
\* io.TextIOWrapper around it (lines 65-69), then the load and the header.
JsonOpen ==
    /\ view = "json" /\ Len(its) < MaxIters
    /\ its' = Append(its, JsonLoad(Frame("load", "none",
                                         IF PY2 THEN <<"open">> ELSE <<"open", "wrap">>)))
    /\ events' = events \o its'[Len(its')].events
    /\ overlap' = (overlap \/ Live # {})
    /\ UNCHANGED <<args, viewvars, writevars, disk, rewritten, gpos, pc, err, log>>

\* iter(view); next() when source.open raises: nothing was opened, the
\* caller gets the error.
JsonOpenFails ==
    /\ view = "json" /\ Len(its) < MaxIters
    /\ its' = Append(its, Frame("done", "IOError", <<>>))
    /\ overlap' = (overlap \/ Live # {})
    /\ UNCHANGED <<args, viewvars, writevars, disk, rewritten, gpos, pc, err, events, log>>

\* iter(view); next() when f.read() inside json.load raises.
JsonReadFails ==
    /\ view = "json" /\ Len(its) < MaxIters
    /\ its' = Append(its, JsonLeave(Frame("load", "none",
                                          IF PY2 THEN <<"open">> ELSE <<"open", "wrap">>),
                                    "IOError"))
    /\ events' = events \o its'[Len(its')].events
    /\ overlap' = (overlap \/ Live # {})
    /\ UNCHANGED <<args, viewvars, writevars, disk, rewritten, gpos, pc, err, log>>

\* next() on a suspended generator.
JsonNext ==
    /\ \E i \in 1..Len(its) :
          /\ its[i].pc = "rows"
          /\ its' = [its EXCEPT ![i] = JsonRow(@)]
          /\ events' = events \o Since(its[i], its'[i])
    /\ UNCHANGED <<args, viewvars, overlap, writevars, disk, rewritten, gpos, pc, err, log>>

\* generator.close() on a suspended generator (also what dropping a partly
\* consumed iterator does): GeneratorExit is raised at the yield of line 81
\* or 85, and the generator leaves through the finally clause and the with.
JsonAbandon ==
    /\ \E i \in 1..Len(its) :
          /\ its[i].pc = "rows"
          /\ its' = [its EXCEPT ![i] = JsonLeave(@, "GeneratorExit")]
          /\ events' = events \o Since(its[i], its'[i])
    /\ UNCHANGED <<args, viewvars, overlap, writevars, disk, rewritten, gpos, pc, err, log>>

\* The text put in place of the file.
Replacement == <<"[", "{", "\"", "a", "\"", ":", " ", "7", "}", "]">>

\* Between two iterations of the view of fromjson, the file behind source
\* is replaced (once).
SourceRewritten ==
    /\ op = "fromjson" /\ view = "json"
    /\ its # <<>> /\ Len(its) < MaxIters
    /\ Live = {} /\ ~rewritten
    /\ disk' = Replacement
    /\ rewritten' = TRUE
    /\ UNCHANGED <<args, viewvars, itervars, writevars, gpos, pc, err, events, log>>

(***************************************************************************)
(* fromdicts and DictsView.                                                *)
(***************************************************************************)
FromDicts ==
    /\ pc = "call" /\ op = "fromdicts"
    /\ view' = "dicts"
    /\ self_header' = header
    /\ pc' = "idle"
    /\ UNCHANGED <<args, self_missing, itervars, writevars, disk, rewritten, gpos, err, events, log>>

\* The records one `for o in result` goes through when it starts now: all of
\* a list, what is left of a generator.
Remaining(n) == IF lazy THEN SubSeq(dicts, n + 1, Len(dicts)) ELSE dicts

\* iter(view); next(), lines 125-135: the header, derived or as given, and
\* its row.  The derivation loop runs a generator to its end.
DictsHeader ==
    /\ view = "dicts" /\ Len(its) < MaxIters
    /\ LET h == IF self_header.given THEN self_header.v
                ELSE DetermineFields(Remaining(gpos))
       IN  its' = Append(its, [Frame("drows", "none", <<>>) EXCEPT
                                  !.hdr = h, !.out = <<HeaderRow(h)>>, !.idx = 1])
    /\ gpos' = (IF lazy /\ ~self_header.given THEN Len(dicts) ELSE gpos)
    /\ overlap' = (overlap \/ Live # {})
    /\ UNCHANGED <<args, viewvars, writevars, disk, rewritten, pc, err, events, log>>

\* Lines 137-139, next() on a suspended generator: the next data row, the
\* end of the loop, or the TypeError of the row expression.  The generators
\* of one view share the records: a list each goes through from the start,
\* a generator hands every record to one of them only.
DictsRow ==
    /\ \E i \in 1..Len(its) :
          /\ its[i].pc = "drows"
          /\ LET g    == its[i]
                 rest == Remaining(gpos)
                 k    == IF lazy THEN 1 ELSE g.idx
                 r    == ProjectRow(rest[k], g.hdr)
             IN  IF k > Len(rest)
                 THEN /\ its' = [its EXCEPT ![i] = [@ EXCEPT !.pc = "done"]]
                      /\ gpos' = gpos
                 ELSE /\ gpos' = (IF lazy THEN gpos + 1 ELSE gpos)
                      /\ its' = [its EXCEPT ![i] =
                                   IF r.ok
                                   THEN [@ EXCEPT !.out = Append(@, r.row),
                                                  !.src = Append(@, IF lazy THEN gpos + 1
                                                                    ELSE g.idx),
                                                  !.idx = @ + 1]
                                   ELSE [@ EXCEPT !.err = "TypeError", !.pc = "done"]]
    /\ UNCHANGED <<args, viewvars, overlap, writevars, disk, rewritten, pc, err, events, log>>

\* generator.close() on a suspended generator of a DictsView: GeneratorExit
\* is raised at the yield of line 135 or 139 and ends it; nothing is held.
DictsAbandon ==
    /\ \E i \in 1..Len(its) :
          /\ its[i].pc = "drows"
          /\ its' = [its EXCEPT ![i] = [@ EXCEPT !.err = "GeneratorExit", !.pc = "done"]]
    /\ UNCHANGED <<args, viewvars, overlap, writevars, disk, rewritten, gpos, pc, err, events, log>>

(***************************************************************************)
(* tojson, tojsonarrays, _writejson and _writeobj.                         *)
(***************************************************************************)
\* tojson: obj = list(_dicts(table)), then _writejson.
ToJson ==
    /\ pc = "call" /\ op = "tojson"
    /\ obj' = List(dicts_of(table))
    /\ pc' = "wopen"
    /\ UNCHANGED <<args, viewvars, itervars, chunks, cpos, written, disk, rewritten, gpos, err, events, log>>

\* The flag read the wrong way round.
ToJsonArrays_inverted ==
    /\ pc = "call" /\ op = "tojsonarrays"
    /\ obj' = List(IF output_header THEN data_of(table) ELSE list_of(table))
    /\ pc' = "wopen"
    /\ UNCHANGED <<args, viewvars, itervars, chunks, cpos, written, disk, rewritten, gpos, err, events, log>>

\* tojsonarrays: obj = list(table) or list(data(table)), then _writejson.
ToJsonArrays ==
    /\ pc = "call" /\ op = "tojsonarrays"
    /\ obj' = List(IF output_header THEN list_of(table) ELSE data_of(table))
    /\ pc' = "wopen"
    /\ UNCHANGED <<args, viewvars, itervars, chunks, cpos, written, disk, rewritten, gpos, err, events, log>>

\* _writejson: source.open('wb') empties the resource; on Python 3 the
\* io.TextIOWrapper goes around it.
WriteOpen ==
    /\ pc = "wopen"
    /\ events' = events \o (IF PY2 THEN <<"open">> ELSE <<"open", "wrap">>)
    /\ disk' = <<>>
    /\ pc' = "wprefix"
    /\ UNCHANGED <<args, viewvars, itervars, writevars, rewritten, gpos, err, log>>

\* source.open raises: nothing was opened, the caller gets the error.
WriteOpenFails ==
    /\ pc = "wopen"
    /\ log' = Append(log, Outcome(<<>>, "IOError", FALSE))
    /\ pc' = "wdone"
    /\ UNCHANGED <<args, viewvars, itervars, writevars, disk, rewritten, gpos, err, events>>

\* _writeobj, lines 216-217: the prefix; the encoder's chunks are next.
WritePrefix ==
    /\ pc = "wprefix"
    /\ written' = (IF prefix.given THEN Append(written, prefix.v) ELSE written)
    /\ disk' = (IF prefix.given THEN disk \o prefix.v ELSE disk)
    /\ chunks' = iterencode(obj, PY2)
    /\ cpos' = 1
    /\ pc' = "wchunks"
    /\ UNCHANGED <<args, viewvars, itervars, obj, rewritten, gpos, err, events, log>>

\* _writeobj, lines 218-219: one chunk.
WriteChunk ==
    /\ pc = "wchunks" /\ cpos <= Len(chunks.c)
    /\ written' = Append(written, chunks.c[cpos])
    /\ disk' = disk \o chunks.c[cpos]
    /\ cpos' = cpos + 1
    /\ UNCHANGED <<args, viewvars, itervars, obj, chunks, rewritten, gpos, pc, err, events, log>>

\* The encoder raises TypeError at a value it cannot encode.
EncodeFails ==
    /\ pc = "wchunks" /\ cpos > Len(chunks.c) /\ ~chunks.ok
    /\ err' = "TypeError"
    /\ pc' = "wfinally"
    /\ UNCHANGED <<args, viewvars, itervars, writevars, disk, rewritten, gpos, events, log>>

\* A suffix written when the prefix is given.
WriteSuffix_onPrefix ==
    /\ pc = "wchunks" /\ cpos > Len(chunks.c) /\ chunks.ok
    /\ written' = (IF prefix.given THEN Append(written, suffix.v) ELSE written)
    /\ disk' = (IF prefix.given THEN disk \o suffix.v ELSE disk)
    /\ pc' = "wfinally"
    /\ UNCHANGED <<args, viewvars, itervars, obj, chunks, cpos, rewritten, gpos, err, events, log>>

\* _writeobj, lines 220-221: the suffix.
WriteSuffix ==
    /\ pc = "wchunks" /\ cpos > Len(chunks.c) /\ chunks.ok
    /\ written' = (IF suffix.given THEN Append(written, suffix.v) ELSE written)
    /\ disk' = (IF suffix.given THEN disk \o suffix.v ELSE disk)
    /\ pc' = "wfinally"
    /\ UNCHANGED <<args, viewvars, itervars, obj, chunks, cpos, rewritten, gpos, err, events, log>>

\* f.write raises.
WriteFails ==
    /\ \/ pc = "wprefix" /\ prefix.given
       \/ pc = "wchunks" /\ cpos <= Len(chunks.c)
       \/ pc = "wchunks" /\ cpos > Len(chunks.c) /\ chunks.ok /\ suffix.given
    /\ err' = "IOError"
    /\ pc' = "wfinally"
    /\ UNCHANGED <<args, viewvars, itervars, writevars, disk, rewritten, gpos, events, log>>

\* _writejson, lines 211-212: finally: f.detach() (Python 3 only).
WriteDetach ==
    /\ pc = "wfinally"
    /\ events' = (IF PY2 THEN events ELSE Append(events, "detach"))
    /\ pc' = "wexit"
    /\ UNCHANGED <<args, viewvars, itervars, writevars, disk, rewritten, gpos, err, log>>

\* The end of the with block: the byte resource is closed, and the call
\* returns or raises.
WriteClose ==
    /\ pc = "wexit"
    /\ events' = Append(events, "close")
    /\ log' = Append(log, Outcome(<<>>, err, TRUE))
    /\ err' = "none"
    /\ pc' = "wdone"
    /\ UNCHANGED <<args, viewvars, itervars, writevars, disk, rewritten, gpos>>

\* After tojson has returned: fromjson(source, header=<the table's header>)
\* on the resource just written.
ReadBack ==
    /\ pc = "wdone" /\ op = "tojson" /\ log[1].err = "none"
    /\ view' = "json"
    /\ self_missing' = None
    /\ self_header' = Given(table.hdr)
    /\ pc' = "idle"
    /\ UNCHANGED <<args, itervars, writevars, disk, rewritten, gpos, err, events, log>>

Next ==
    \/ FromJson \/ JsonOpen \/ JsonOpenFails \/ JsonReadFails \/ JsonNext \/ JsonAbandon
    \/ SourceRewritten
    \/ FromDicts \/ DictsHeader \/ DictsRow \/ DictsAbandon
    \/ ToJson \/ ToJsonArrays \/ WriteOpen \/ WriteOpenFails \/ WritePrefix
    \/ WriteChunk \/ EncodeFails \/ WriteSuffix \/ WriteFails
    \/ WriteDetach \/ WriteClose \/ ReadBack

Spec == Init /\ [][Next]_vars

(***************************************************************************)
(* The claims.                                                             *)
(***************************************************************************)
Count(ev, x) == Cardinality({k \in 1..Len(ev) : ev[k] = x})

IsPrefix(a, b) == Len(a) <= Len(b) /\ SubSeq(b, 1, Len(a)) = a

Distinct(h) == \A j, k \in 1..Len(h) : j # k => h[j] # h[k]

IsMapping(o) == o.t = "dict"

\* The iterations that have ended, and those among them that were consumed
\* to exhaustion.
Done == {k \in 1..Len(its) : its[k].pc = "done"}

Full == {k \in Done : its[k].err = "none"}

\* The record sequence the k-th iteration of the view meets: the members of
\* the value it has decoded, the list, or what a generator still holds when
\* the iteration starts (everything at the first iteration, nothing after a
\* derivation loop has run it to its end).
InputOf(k) ==
    IF view = "json" THEN Iter(its[k].result, PY2)
    ELSE IF lazy /\ k > 1 THEN <<>>
    ELSE dicts

\* row is a header row that is ascending without repeats and holds exactly
\* the keys of the mappings among elems.
IsSortedUnion(row, elems) ==
    /\ \A k \in 1..Len(row) : row[k].t = "str"
    /\ \A k \in 1..(Len(row) - 1) : StrLess(row[k].s, row[k + 1].s)
    /\ {row[k].s : k \in 1..Len(row)}
         = UNION {Range(elems[j].keys) : j \in {n \in 1..Len(elems) : IsMapping(elems[n])}}

\* C1: with no explicit header, the header row of either reader is the
\* lexicographically sorted, duplicate-free union of the keys of all records
\* of the input; for an empty record sequence it is the empty header, and
\* the header is then the only row produced.
C1_HeaderIsSortedUnion ==
    (view \in {"json", "dicts"} /\ ~self_header.given) =>
        /\ \A k \in 1..Len(its) :
              its[k].out # <<>> => IsSortedUnion(its[k].out[1], InputOf(k))
        /\ \A k \in Full : InputOf(k) = <<>> => its[k].out = << <<>> >>

\* A finished iteration whose derived header merges the keys of two records
\* (B, a, ab, b: four fields, no record holds more than two).
C1_Witness ==
    /\ view \in {"json", "dicts"} /\ ~self_header.given
    /\ \E k \in Full :
          /\ Len(its[k].out) = 3
          /\ Len(its[k].out[1]) = 4

\* The value a row must hold at field f of record o when absent fields are
\* filled with fill.
Expected(o, f, fill) == IF f \in Range(o.keys) THEN GetItem(o, f) ELSE fill

\* The records behind the data rows of the k-th iteration: the member of the
\* array, of the list, or handed out by the generator, that the n-th data row
\* was made from.
Record(k, n) ==
    IF view = "json" THEN Iter(its[k].result, PY2)[its[k].src[n]] ELSE dicts[its[k].src[n]]

\* C2: fromjson called with `missing`: a row position whose field is absent
\* from the record holds the configured missing value, a position whose
\* field is present holds the record's value.
C2_MissingValueFills ==
    (op = "fromjson" /\ view = "json") =>
        \A k \in 1..Len(its) :
            \A n \in 1..Len(its[k].src) :
                IsMapping(Record(k, n)) =>
                    \A j \in 1..Len(its[k].hdr) :
                        its[k].out[n + 1][j]
                          = Expected(Record(k, n), its[k].hdr[j], self_missing)

\* C3: with an explicit header, the header row is that header verbatim and
\* every data row has one value per header field in header order: keys not
\* in the header are dropped, absent fields hold the missing sentinel.
C3_ExplicitHeaderProjects ==
    (op \in {"fromjson", "fromdicts"} /\ self_header.given) =>
        \A k \in 1..Len(its) :
            its[k].out # <<>> =>
                /\ its[k].out[1] = HeaderRow(header.v)
                /\ \A n \in 1..Len(its[k].src) :
                      IsMapping(Record(k, n)) =>
                          /\ Len(its[k].out[n + 1]) = Len(header.v)
                          /\ \A j \in 1..Len(header.v) :
                                its[k].out[n + 1][j]
                                  = Expected(Record(k, n), header.v[j], self_missing)

\* The events of one operation on the resource.
Block == IF PY2 THEN <<"open", "close">> ELSE <<"open", "wrap", "detach", "close">>

\* Whether an operation had opened the byte resource: a generator carries
\* no event when source.open has raised.
Opened(k) == its[k].events # <<>>

\* The events an operation that has ended must have made.
Released(opened) == IF opened THEN Block ELSE <<>>

\* Whether the encoder has an encoding for v: no part of it is an object of
\* a type JSON has nothing for.
RECURSIVE Encodable(_)
Encodable(v) ==
    /\ v.t # "object"
    /\ \A k \in 1..Len(v.items) : Encodable(v.items[k])

Writer == op \in {"tojson", "tojsonarrays"}

\* Whether a text a view has read is no JSON document: one of the malformed
\* file contents given to fromjson, or what tojson has written around its
\* array when it was given a prefix or a suffix.
NoDocument(text) ==
    IF Writer THEN prefix.given \/ suffix.given ELSE text \in Malformed

\* C4: every operation that opens the byte resource releases it on every
\* exit path (normal end, decode error, encode error, I/O error): the
\* wrapper, where there is one, is detached first, the resource is closed
\* after it, and the caller gets the error that was raised: the decoder's
\* error exactly when the text read is no JSON document, the encoder's
\* TypeError exactly when the object holds a value JSON has nothing for.
C4_ReleasedOnEveryPath ==
    /\ \A k \in 1..Len(its) :
          /\ IsPrefix(its[k].events, Block)
          /\ k \in Done =>
                /\ its[k].events = Released(Opened(k))
                /\ (view = "json" /\ ~Opened(k)) => its[k].err = "IOError"
                /\ (Opened(k) /\ its[k].err # "IOError") =>
                      ((its[k].err = DecodeError) <=> NoDocument(its[k].text))
    /\ Writer =>
          /\ view = "none" => IsPrefix(events, Block)
          /\ Len(log) = 1 =>
                /\ IsPrefix(Released(log[1].opened), events)
                /\ view = "none" => events = Released(log[1].opened)
                /\ (log[1].opened /\ log[1].err # "IOError") =>
                      ((log[1].err = "TypeError") <=> ~Encodable(obj))

\* A read that ended in the decoder's error on Python 3, wrapper detached and
\* resource closed.
C4_Witness ==
    /\ ~PY2 /\ op = "fromjson"
    /\ 1 \in Done /\ its[1].err = "JSONDecodeError"
    /\ its[1].text = <<"[", "1", ",", "]">>
    /\ its[1].events = <<"open", "wrap", "detach", "close">>

\* How many times the byte resource is open now: opened and not yet closed.
NowOpen == Count(events, "open") - Count(events, "close")

\* The row of the member o of the decoded document under the field names h:
\* the value of each field, None where o lacks it.
ExpectedRow(o, h) ==
    [j \in 1..Len(h) |-> IF IsMapping(o) THEN Expected(o, h[j], None) ELSE None]

\* The rows out are a header row (the explicit header, else the sorted union
\* of the keys) and the row of every member of elems, in order.
RowsOver(out, elems) ==
    /\ Len(out) = 1 + Len(elems)
    /\ IF self_header.given THEN out[1] = HeaderRow(self_header.v)
       ELSE IsSortedUnion(out[1], elems)
    /\ \A n \in 1..Len(elems) :
          out[n + 1] = ExpectedRow(elems[n], [j \in 1..Len(out[1]) |-> out[1][j].s])

\* C5: the table of fromjson is restartable: constructing it opens nothing;
\* each full iteration opens the resource once and releases it once; when
\* the iterations follow one another (none is started while another is
\* unfinished), k of them make k open/release pairs with at most one open
\* at any time; every iteration reads the content the resource has when it
\* is opened, and full iterations over the same content (all of them, as
\* long as the resource is not rewritten) yield the same rows: the header
\* and the row of every member, in order.
C5_Restartable ==
    op = "fromjson" =>
        /\ its = <<>> => events = <<>>
        /\ \A k \in Full :
              /\ Count(its[k].events, "open") = 1
              /\ Count(its[k].events, "close") = 1
              /\ RowsOver(its[k].out, InputOf(k))
        /\ ~overlap =>
              /\ NowOpen \in {0, 1}
              /\ Full = 1..Len(its) =>
                    /\ Count(events, "open") = Len(its)
                    /\ Count(events, "close") = Len(its)
        /\ \A k \in 1..Len(its) :
              (Opened(k) /\ its[k].err # "IOError" /\ (~rewritten \/ k \in Live)) =>
                  its[k].text = disk
        /\ \A j, k \in Full : its[j].text = its[k].text => its[j].out = its[k].out
        /\ ~rewritten => \A j, k \in Full : its[j].out = its[k].out

\* Two full iterations of one view, one after the other, each a header and
\* two data rows.
C5_Witness ==
    /\ op = "fromjson" /\ ~overlap /\ ~rewritten
    /\ Full = {1, 2}
    /\ Len(its[1].out) = 3
    /\ Count(events, "close") = 2

WriteReturned == Writer /\ Len(log) >= 1 /\ log[1].err = "none"

\* u == v in Python for values of the same type: a dict holds the same keys
\* with equal values, whatever the order it holds them in.
RECURSIVE SameValue(_, _)
SameValue(u, v) ==
    CASE u.t # v.t -> FALSE
      [] u.t = "list" ->
            /\ Len(u.items) = Len(v.items)
            /\ \A k \in 1..Len(u.items) : SameValue(u.items[k], v.items[k])
      [] u.t = "dict" ->
            /\ Range(u.keys) = Range(v.keys)
            /\ \A k \in 1..Len(u.keys) : SameValue(u.items[k], GetItem(v, u.keys[k]))
      [] OTHER -> u = v

Literal(a) == IF a.given THEN <<a.v>> ELSE <<>>

LiteralText(a) == IF a.given THEN a.v ELSE <<>>

\* The writes of a call that returns.
ExpectedWrites == Literal(prefix) \o iterencode(obj, PY2).c \o Literal(suffix)

\* The text between the prefix and the suffix.
Body(text) == SubSeq(text, Len(LiteralText(prefix)) + 1, Len(text) - Len(LiteralText(suffix)))

\* r is the outcome of a decoding that gave a value equal to v.
DecodesTo(r, v) == r.ok /\ SameValue(r.v, v)

\* C6 as stated: the writes are the prefix, the chunks in encoder order, the
\* suffix, and nothing else; with zero data rows the text between prefix and
\* suffix is [].
C6_Original ==
    op \in {"tojson", "tojsonarrays"} =>
        LET w == ExpectedWrites
        IN  /\ IsPrefix(written, w)
            /\ WriteReturned =>
                  /\ written = w
                  /\ disk = Flatten(w)
                  /\ table.rows = <<>> => Body(disk) = <<"[", "]">>

\* C6 as amended: the same (the text between prefix and suffix decoding to
\* the object encoded), the text being [] with zero data rows when the
\* header is not written; with output_header it is the array holding the
\* header row alone.  The writes are compared in every state of the call and
\* of its return; a view that reads the file back afterwards leaves it as it
\* was written.
C6_WritesInOrder ==
    /\ (Writer /\ view = "none") =>
          LET w == ExpectedWrites
          IN  /\ IsPrefix(written, w)
              /\ WriteReturned =>
                    /\ written = w
                    /\ disk = Flatten(w)
                    /\ DecodesTo(json_load(Body(disk)), obj)
                    /\ (table.rows = <<>> /\ ~output_header) => Body(disk) = <<"[", "]">>
                    /\ (table.rows = <<>> /\ output_header) =>
                          DecodesTo(json_load(Body(disk)), List(<<List(HeaderRow(table.hdr))>>))
    /\ (Writer /\ view # "none") => (WriteReturned /\ disk = Flatten(written))

\* A table without data rows written between a prefix and a suffix.
C6_Witness ==
    /\ WriteReturned /\ pc = "wdone"
    /\ prefix.given /\ suffix.given
    /\ table.rows = <<>> /\ ~output_header
    /\ Len(written) = 3

\* The iterations of the view read back that neither an I/O error nor the
\* caller has cut short.
ReadBacks == {k \in Done : its[k].err \notin {"IOError", "GeneratorExit"}}

RoundTrip == op = "tojson" /\ ~prefix.given /\ ~suffix.given /\ view = "json"

\* The rows out are the header of the table and its data rows, every value
\* the same.
SameRows(out, t) ==
    /\ Len(out) = 1 + Len(t.rows)
    /\ out[1] = HeaderRow(t.hdr)
    /\ \A n \in 1..Len(t.rows) :
          /\ Len(out[n + 1]) = Len(t.rows[n])
          /\ \A j \in 1..Len(t.rows[n]) : SameValue(out[n + 1][j], t.rows[n][j])

\* C7 as stated: for any table, tojson and then fromjson with the table's
\* header yield the header and the data rows, every value preserved.
C7_Original ==
    RoundTrip =>
        \A k \in ReadBacks :
            /\ its[k].err = "none"
            /\ SameRows(its[k].out, table)

\* C7 as amended: the same for a table whose header names are distinct.
C7_RoundTrip ==
    (RoundTrip /\ Distinct(table.hdr)) =>
        \A k \in ReadBacks :
            /\ its[k].err = "none"
            /\ SameRows(its[k].out, table)

\* A table of the fields b and a and two rows, one value a str with a quote
\* and a newline, one a list that holds a float, written on Python 2 (which
\* puts a before b) and read back.
C7_Witness ==
    /\ RoundTrip /\ Distinct(table.hdr) /\ PY2
    /\ table.hdr = <<fb, fa>> /\ Len(table.rows) = 2
    /\ table.rows[1][2].t = "list"
    /\ table.rows[2][2].t = "str"
    /\ SubSeq(disk, 1, 5) = <<"[", "{", "\"", "a", "\"">>
    /\ 1 \in ReadBacks

\* C8: tojsonarrays: without output_header the array holds one element per
\* data row, in row order, and none for the header; with output_header the
\* header comes first, unchanged, then the data rows.
C8_ArraysPerRow ==
    (op = "tojsonarrays" /\ WriteReturned) =>
        LET doc == json_load(Body(disk))
            off == IF output_header THEN 1 ELSE 0
        IN  /\ doc.ok /\ doc.v.t = "list"
            /\ Len(doc.v.items) = Len(table.rows) + off
            /\ output_header => doc.v.items[1] = List(HeaderRow(table.hdr))
            /\ \A k \in 1..Len(table.rows) : doc.v.items[k + off] = List(table.rows[k])

\* Two data rows written after the header.
C8_Witness ==
    /\ op = "tojsonarrays" /\ WriteReturned
    /\ output_header /\ Len(table.hdr) = 2 /\ Len(table.rows) = 2

\* C9: fromdicts over a generator, no explicit header: one iteration, run to
\* its end, yields the sorted-union header and then one projected row per
\* record, in order.
C9_GeneratorRows ==
    (op = "fromdicts" /\ lazy /\ ~self_header.given
       /\ 1 \in Done /\ its[1].err # "GeneratorExit"
       /\ \A j \in 1..Len(dicts) : IsMapping(dicts[j])) =>
        /\ its[1].err = "none"
        /\ Len(its[1].out) = 1 + Len(dicts)
        /\ \A j \in 1..Len(dicts) :
              \A n \in 1..Len(its[1].out[1]) :
                  its[1].out[j + 1][n] = Expected(dicts[j], its[1].out[1][n].s, None)

\* The finished iterations of a reader that derives its header, over a
\* decoded array or a list (a materialized sequence), that the caller has
\* not closed early.
ArrayRuns ==
    IF self_header.given THEN {}
    ELSE IF op = "fromjson" /\ view = "json"
    THEN {k \in Done : its[k].result.t = "list" /\ its[k].err # "GeneratorExit"}
    ELSE IF op = "fromdicts" /\ view = "dicts" /\ ~lazy
    THEN {k \in Done : its[k].err # "GeneratorExit"}
    ELSE {}

NonMappings(elems) == {n \in 1..Len(elems) : ~IsMapping(elems[n])}

\* C10 as stated: a member that is no mapping is skipped by the header
\* derivation, the header row is emitted, the rows of the members before it
\* are emitted, and the iteration fails with TypeError at that member; no
\* row is emitted for it.
C10_Original ==
    \A k \in ArrayRuns :
        LET elems == InputOf(k)
        IN  NonMappings(elems) # {} =>
                LET n == CHOOSE n \in NonMappings(elems) : \A m \in NonMappings(elems) : n <= m
                IN  /\ its[k].err = "TypeError"
                    /\ Len(its[k].out) = n

\* Whether the row expression raises TypeError at a member o that is no
\* mapping, under header h: some field is looked up (h is not empty) and o
\* is a number, a bool or None, or a str that contains a field, or a list
\* that holds a field.
Raises(o, h) ==
    /\ ~IsMapping(o)
    /\ h # <<>>
    /\ \/ o.t \in {"int", "float", "bool", "null", "object"}
       \/ o.t = "str" /\ \E j \in 1..Len(h) : IsSubstring(h[j], o.s)
       \/ o.t = "list" /\ \E j \in 1..Len(h) : \E m \in 1..Len(o.items) : o.items[m] = Str(h[j])

\* C10 as amended: the header row is emitted and the rows of earlier members
\* are; the iteration fails with TypeError at the first member that is no
\* mapping and either is a number, a bool or None under a non-empty header
\* or contains a header field (a str as a substring, a list as a member).
\* For any other member that is no mapping a row is emitted that holds the
\* absent-field filler None at every position.
C10_NonMappingMembers ==
    \A k \in ArrayRuns :
        LET elems == InputOf(k)
            h     == [j \in 1..Len(its[k].out[1]) |-> its[k].out[1][j].s]
            bad   == {n \in 1..Len(elems) : Raises(elems[n], h)}
        IN  /\ Len(its[k].out) >= 1
            /\ IsSortedUnion(its[k].out[1], elems)
            /\ IF bad = {}
               THEN its[k].err = "none" /\ Len(its[k].out) = 1 + Len(elems)
               ELSE LET n == CHOOSE n \in bad : \A m \in bad : n <= m
                    IN  its[k].err = "TypeError" /\ Len(its[k].out) = n
            /\ \A n \in NonMappings(elems) :
                  n + 1 <= Len(its[k].out) =>
                      its[k].out[n + 1] = [j \in 1..Len(h) |-> None]

\* An iteration that emitted the row of a record and failed at the number
\* after it.
C10_Witness ==
    \E k \in ArrayRuns :
        /\ Len(InputOf(k)) = 2
        /\ IsMapping(InputOf(k)[1]) /\ InputOf(k)[2].t \in {"int", "float"}
        /\ its[k].err = "TypeError"
        /\ Len(its[k].out) = 2 /\ Len(its[k].out[2]) = 2
====
